---- MODULE Spec2Model ----
(***************************************************************************)
(* State-machine model of the network-topology widget.                     *)
(*                                                                         *)
(*  - the tooltip auto-cycle hook  (useTooltipAutoMovement),               *)
(*  - the NetworkTopology component's hover / click / inactivity logic,    *)
(*  - the page-level entry point   (nettopology.init, auto-initialise).    *)
(*                                                                         *)
(* Time is counted in whole seconds.  Geometry is symbolic: a position is  *)
(* named by the entity it is computed from.                                *)
(***************************************************************************)
EXTENDS Integers, Sequences, FiniteSets, TLC

VARIABLES
    nodes,            \* networkData.nodes   (sequence of node ids)
    links,            \* networkData.links   (sequence of [source, target])
    currentIndex,     \* useTooltipAutoMovement: currentIndex.current
    autoTooltipData,  \* useTooltipAutoMovement: tooltipData state
    tooltipTimer,     \* seconds until the auto-cycle interval fires
    hoveredNode,      \* NetworkTopology: hoveredNode state
    hoveredLink,      \* NetworkTopology: hoveredLink state
    autoTooltip,      \* NetworkTopology: autoTooltip state
    idle,             \* Date.now() - lastInteraction.current, in seconds (capped)
    checkTimer,       \* seconds until the inactivity interval fires
    selectedTarget,   \* NetworkTopology: selectedTarget state
    selectedTooltip,  \* NetworkTopology: selectedTooltip state
    crashed,          \* an exception escaped a handler
    trace,            \* history: the last moveTooltip calls, oldest first
    sinceInput,       \* history: seconds since the latest pointer input (capped)
    lastEvent,        \* history: the handler that ran last, with its argument
    entry,            \* which file's module code is the page's script
    readyState,       \* document.readyState
    dclFired,         \* DOMContentLoaded has been dispatched
    scriptEvaluated,  \* the bundle has run: window.nettopology is assigned
    listenerAdded,    \* the script registered a DOMContentLoaded listener
    manualInitCalled, \* NetworkTopology.tsx: manualInitCalled (and the window flag)
    containerExists,  \* document.getElementById('nettopology') finds an element
    mounts,           \* React roots created on the container and never unmounted
    consoleErrors,    \* number of console.error reports
    thrown,           \* an exception escaped init
    calls             \* history: the init calls so far, "auto" or "manual"

widgetVars ==
    <<nodes, links, currentIndex, autoTooltipData, tooltipTimer, hoveredNode,
      hoveredLink, autoTooltip, idle, checkTimer, selectedTarget,
      selectedTooltip, crashed, trace, sinceInput, lastEvent>>

pageVars ==
    <<entry, readyState, dclFired, scriptEvaluated, listenerAdded,
      manualInitCalled, containerExists, mounts, consoleErrors, thrown, calls>>

VARIABLES
    canvas,           \* life cycle of the Canvas children: "none", "mounted", "unmounted"
    autoRotate,       \* OrbitControls: controls.autoRotate
    isAutoRotating,   \* AutoRotate: isAutoRotating.current
    rotateIdle,       \* AutoRotate: Date.now() - lastInteraction.current, in steps (capped)
    sinceGesture,     \* history: steps since the latest mousedown, wheel or touchstart (capped)
    cameraPosition,   \* camera.position
    orbitTarget,      \* controls.target
    posTween,         \* CameraController: the tween of the latest selection
    tweenGroup,       \* TWEEN: the started tweens that TWEEN.update() runs, oldest first
    unmounted,        \* the topology view has been unmounted
    polling,          \* NetworkTopology: the 16 ms updatePositions interval is set
    containerListeners, \* NetworkTopology: mousemove / mouseleave listeners on the container
    windowListeners,  \* AutoRotate: mousedown / wheel / touchstart listeners on window
    animating,        \* CameraController: an animation frame is requested
    nodeHandles,      \* ids whose entry of nodeRefs has a handle (ref.current)
    nodePositions,    \* NetworkTopology: the keys of the nodePositions state
    calc              \* a geometry function under study: its arguments and its result

VARIABLES
    flowIntensity,    \* TrafficFlow: the intensity prop ("none" before the first render)
    progress,         \* TrafficFlow: progress.current, in 1 / ProgressOne
    offsets,          \* TrafficFlow: offsets.current, each the ordinal of the createRandomOffset call that made it
    draws,            \* history: calls of createRandomOffset so far
    lastTime,         \* TrafficFlow: lastTime.current, in 1 / TimeDen seconds
    progress0,        \* history: progress.current as it was initialised
    flowElapsed,      \* history: sum of the frame deltas since the initialisation
    arrayLength,      \* TrafficFlow: progress.current.length and offsets.current.length (0 for null)
    flowStep          \* history: the latest step of the component: "init", "kept" or "frame"

rotateVars ==
    <<autoRotate, isAutoRotating, rotateIdle, sinceGesture>>

cameraVars ==
    <<cameraPosition, orbitTarget, posTween, tweenGroup>>

effectVars ==
    <<unmounted, polling, containerListeners>>

loopVars ==
    <<windowListeners, animating>>

positionVars ==
    <<nodeHandles, nodePositions>>

sceneVars ==
    <<canvas, rotateVars, cameraVars, effectVars, loopVars, positionVars>>

VARIABLES
    emissive,         \* NetworkNode: the materials whose emissive colour and intensity were set
    autoIntervals     \* useTooltipAutoMovement: intervals set by the effect and not cleared

flowVars ==
    <<flowIntensity, progress, offsets, draws, lastTime, progress0, flowElapsed,
      arrayLength, flowStep>>

materialVars ==
    <<emissive>>

timerVars ==
    <<autoIntervals>>

calcVars ==
    <<calc, flowVars, materialVars, timerVars>>

vars ==
    <<widgetVars, pageVars, sceneVars, calcVars>>

----------------------------------------------------------------------------
(* Bounds of the model *)

MaxNodes ==
    2

MaxLinks ==
    2

MaxInitCalls ==
    3

\* selections of one run (each one nests the symbolic camera position)
MaxSelections ==
    2

\* particles of a flow that are followed
MaxParticles ==
    2

\* calls of createRandomOffset after which no further render happens
MaxDraws ==
    5

\* the clock of a flow stops at MaxTime / TimeDen seconds
MaxTime ==
    9

\* largest count handed to distributePointsOnSphere
MaxCount ==
    8

\* largest radius handed to distributePointsOnSphere
MaxRadius ==
    3

\* widest run of equally distant samples around a nearest one
MaxPlateau ==
    2

(* Program constants *)

intervalMs ==
    3000

CheckIntervalMs ==
    1000

IdleLimitMs ==
    5000

TickSecs ==
    intervalMs \div 1000

\* .to({...}, 1500)
TweenMs ==
    1500

\* Date.now() - lastInteraction.current > 5000
RotateIdleMs ==
    5000

CheckSecs ==
    CheckIntervalMs \div 1000

IdleLimit ==
    IdleLimitMs \div 1000

\* clocks stop counting once they are past every threshold the code tests
ClockCap ==
    IdleLimit + 1

RECURSIVE GCD(_, _)
GCD(a, b) ==
    IF b = 0 THEN a ELSE GCD(b, a % b)

\* the scene's clock ticks in the longest step that divides both durations
StepMs ==
    GCD(TweenMs, RotateIdleMs)

TweenSteps ==
    TweenMs \div StepMs

RotateIdleSteps ==
    RotateIdleMs \div StepMs

RotateCap ==
    RotateIdleSteps + 1

----------------------------------------------------------------------------
(* Values *)

Null ==
    "null"

NodePool ==
    <<"n1", "n2", "n3", "n4", "n5">>

\* an id that no node carries: the endpoint of a malformed link
Ghost ==
    "ghost"

NullLink ==
    [source |-> Null, target |-> Null]

NullTooltip ==
    [type |-> Null, title |-> <<>>, details |-> <<>>,
     position |-> <<>>, targetPosition |-> <<>>]

NoEvent ==
    [op |-> "mount", a |-> Null, b |-> Null]

\* what the three timer-driven steps leave in lastEvent
TimerEvent ==
    [op |-> "timer", a |-> Null, b |-> Null]

Event(op, a, b) ==
    [op |-> op, a |-> a, b |-> b]

NodeIds ==
    {nodes[i] : i \in DOMAIN nodes}

\* nodes.find(n => n.id === id) succeeds
HasNode(id) ==
    id \in NodeIds

WellFormed(l) ==
    HasNode(l.source) /\ HasNode(l.target)

totalPoints ==
    Len(nodes) + Len(links)

----------------------------------------------------------------------------
(* Symbolic geometry *)

\* node.position of the node with this id
PositionOf(id) ==
    <<"pos", id>>

\* chord midpoint of two node positions
Midpoint(s, t) ==
    <<"mid", s, t>>

\* the point scaled out to 1.5 x radius
ensureOutsideSphere(p) ==
    <<"outside">> \o p

\* the sampled arc point nearest to the chord midpoint
findClosestPointOnGreatCircle(s, t) ==
    <<"closest", s, t>>

----------------------------------------------------------------------------
(* useTooltipAutoMovement *)

NextIndex_plain(i, total) ==
    i + 1

NextIndex_stuck(i, total) ==
    IF i + 1 < total THEN i + 1 ELSE i

NextIndex(i, total) ==
    (i + 1) % total

AutoNodeTooltip(id) ==
    [type |-> "node",
     title |-> <<"Node", id>>,
     details |-> <<"Status: Active", "Uptime: 99.99%", "Load: Normal">>,
     position |-> ensureOutsideSphere(PositionOf(id)),
     targetPosition |-> PositionOf(id)]

AutoLinkTooltip(l) ==
    [type |-> "link",
     title |-> <<"Link", l.source, l.target>>,
     details |-> <<"Status: Online", "Latency: low">>,
     position |-> ensureOutsideSphere(Midpoint(l.source, l.target)),
     targetPosition |-> findClosestPointOnGreatCircle(l.source, l.target)]

\* if (sourceNode && targetNode)
LinkResolves_unchecked(l) ==
    TRUE

LinkResolves(l) ==
    HasNode(l.source) /\ HasNode(l.target)

\* if (currentIndex.current < nodes.length)
IsNodeIndex(i) ==
    i < Len(nodes)

\* the history keeps the last totalPoints + 1 calls
Remember(call) ==
    LET t == Append(trace, call)
    IN  IF Len(t) > totalPoints + 1 THEN Tail(t) ELSE t

TraceEntry(i, branch, set) ==
    [index |-> i, branch |-> branch, set |-> set]

\* one call of moveTooltip; nodes[i] of the code is nodes[i + 1] here
moveTooltip ==
    LET idx == NextIndex(currentIndex, totalPoints)
    IN  /\ currentIndex' = idx
        /\ IF IsNodeIndex(idx)
           THEN IF idx + 1 \in DOMAIN nodes
                THEN /\ autoTooltipData' = AutoNodeTooltip(nodes[idx + 1])
                     /\ trace' = Remember(TraceEntry(idx, "node", TRUE))
                     /\ crashed' = crashed
                ELSE \* node is undefined: node.position throws
                     /\ autoTooltipData' = autoTooltipData
                     /\ trace' = Remember(TraceEntry(idx, "node", FALSE))
                     /\ crashed' = TRUE
           ELSE LET linkIndex == idx - Len(nodes)
                IN  IF linkIndex + 1 \notin DOMAIN links
                    THEN \* link is undefined: link.source throws
                         /\ autoTooltipData' = autoTooltipData
                         /\ trace' = Remember(TraceEntry(idx, "link", FALSE))
                         /\ crashed' = TRUE
                    ELSE LET link == links[linkIndex + 1]
                         IN  IF LinkResolves(link)
                             THEN IF WellFormed(link)
                                  THEN /\ autoTooltipData' = AutoLinkTooltip(link)
                                       /\ trace' = Remember(TraceEntry(idx, "link", TRUE))
                                       /\ crashed' = crashed
                                  ELSE \* sourceNode.position of undefined throws
                                       /\ autoTooltipData' = autoTooltipData
                                       /\ trace' = Remember(TraceEntry(idx, "link", FALSE))
                                       /\ crashed' = TRUE
                             ELSE /\ autoTooltipData' = autoTooltipData
                                  /\ trace' = Remember(TraceEntry(idx, "link", FALSE))
                                  /\ crashed' = crashed

\* the effect returns before creating the interval when there is nothing to show
HasInterval ==
    ~(Len(nodes) = 0 /\ Len(links) = 0)

\* return () => clearInterval(interval): the intervals left once the cleanup
\* of the effect has run
AfterCleanup_leaked(n) ==
    n

AfterCleanup(n) ==
    IF n > 0 THEN n - 1 ELSE n

\* the body of the effect of useTooltipAutoMovement, after the cleanup of its
\* previous run left n intervals; a new links array has the length of the
\* one it replaces
AutoCycleEffect(n) ==
    IF HasInterval
    THEN /\ moveTooltip
         /\ tooltipTimer' = TickSecs
         /\ autoIntervals' = n + 1
    ELSE /\ UNCHANGED <<currentIndex, autoTooltipData, trace, tooltipTimer,
                        crashed>>
         /\ autoIntervals' = n

----------------------------------------------------------------------------
(* NetworkTopology: derived render values *)

TrafficLine(intensity) ==
    CASE intensity = "low" -> "Traffic: low"
      [] intensity = "medium" -> "Traffic: medium"
      [] intensity = "high" -> "Traffic: high"
      [] OTHER -> "Traffic: unknown"

\* networkData.links.find(l => l.source === s && l.target === t)?.trafficIntensity
FoundIntensity(s, t) ==
    LET hits == {i \in DOMAIN links : links[i].source = s /\ links[i].target = t}
    IN  IF hits = {} THEN "unknown"
        ELSE links[CHOOSE i \in hits : \A j \in hits : i <= j].trafficIntensity

getHoverTooltipData ==
    IF hoveredNode # Null
    THEN IF ~HasNode(hoveredNode) THEN NullTooltip
         ELSE [type |-> "node",
               title |-> <<"Node", hoveredNode>>,
               details |-> <<"Status: Active", "Uptime: 99.9%", "Load: Normal">>,
               position |-> ensureOutsideSphere(PositionOf(hoveredNode)),
               targetPosition |-> PositionOf(hoveredNode)]
    ELSE IF hoveredLink # NullLink
    THEN IF ~(HasNode(hoveredLink.source) /\ HasNode(hoveredLink.target))
         THEN NullTooltip
         ELSE [type |-> "link",
               title |-> <<"Link", hoveredLink.source, hoveredLink.target>>,
               details |-> <<"Status: Connected", "Latency: 5ms",
                             TrafficLine(FoundIntensity(hoveredLink.source,
                                                        hoveredLink.target))>>,
               position |-> ensureOutsideSphere(
                                Midpoint(hoveredLink.source, hoveredLink.target)),
               targetPosition |-> findClosestPointOnGreatCircle(
                                      hoveredLink.source, hoveredLink.target)]
    ELSE NullTooltip

\* <<>> stands for undefined
getTooltipTargetPosition ==
    IF hoveredNode # Null /\ HasNode(hoveredNode)
    THEN PositionOf(hoveredNode)
    ELSE IF /\ hoveredLink # NullLink
            /\ HasNode(hoveredLink.source)
            /\ HasNode(hoveredLink.target)
    THEN findClosestPointOnGreatCircle(hoveredLink.source, hoveredLink.target)
    ELSE <<>>

tooltipData ==
    IF autoTooltip THEN autoTooltipData ELSE getHoverTooltipData

tooltipTarget ==
    getTooltipTargetPosition

\* targetPosition={autoTooltip ? tooltipData.targetPosition : tooltipTarget}
ConnectorTarget ==
    IF autoTooltip THEN tooltipData.targetPosition ELSE tooltipTarget

\* {tooltipData && <NetworkTooltip ... />}
TooltipShown ==
    tooltipData # NullTooltip

\* a link is rendered once both endpoints have a polled position
LinkRendered(l) ==
    WellFormed(l)

Min(a, b) ==
    IF a < b THEN a ELSE b

Mounted ==
    checkTimer >= 0

----------------------------------------------------------------------------
(* NetworkTopology: handlers *)

\* if (autoTooltip) return;
HoverDisabled_never ==
    FALSE

HoverDisabled ==
    autoTooltip

handleNodeHover(nodeId) ==
    IF HoverDisabled
    THEN UNCHANGED <<hoveredNode, hoveredLink>>
    ELSE /\ hoveredNode' = nodeId
         /\ hoveredLink' = NullLink

handleLinkHover_keepsNode(sourceId, targetId) ==
    IF HoverDisabled
    THEN UNCHANGED <<hoveredNode, hoveredLink>>
    ELSE /\ hoveredNode' = hoveredNode
         /\ hoveredLink' = IF targetId # Null
                           THEN [source |-> sourceId, target |-> targetId]
                           ELSE NullLink

handleLinkHover(sourceId, targetId) ==
    IF HoverDisabled
    THEN UNCHANGED <<hoveredNode, hoveredLink>>
    ELSE /\ hoveredNode' = Null
         /\ hoveredLink' = IF targetId # Null
                           THEN [source |-> sourceId, target |-> targetId]
                           ELSE NullLink

handleNodeClick(nodeId) ==
    IF ~HasNode(nodeId)
    THEN UNCHANGED <<selectedTarget, selectedTooltip, hoveredNode, hoveredLink,
                     autoTooltip>>
    ELSE /\ selectedTarget' = PositionOf(nodeId)
         /\ selectedTooltip' = ensureOutsideSphere(PositionOf(nodeId))
         /\ hoveredNode' = nodeId
         /\ hoveredLink' = NullLink
         /\ autoTooltip' = FALSE

handleLinkClick(sourceId, targetId) ==
    IF ~(HasNode(sourceId) /\ HasNode(targetId))
    THEN UNCHANGED <<selectedTarget, selectedTooltip, hoveredNode, hoveredLink,
                     autoTooltip>>
    ELSE /\ selectedTarget' = findClosestPointOnGreatCircle(sourceId, targetId)
         /\ selectedTooltip' = ensureOutsideSphere(Midpoint(sourceId, targetId))
         /\ hoveredNode' = Null
         /\ hoveredLink' = [source |-> sourceId, target |-> targetId]
         /\ autoTooltip' = FALSE

\* the material of the data_center_rack.glb template that useGLTF caches
Template ==
    "template"

\* const model = scene.clone(true): the clone gets new objects, and each new
\* mesh is handed the material of the mesh it copies
MaterialOf(id) ==
    Template

\* the render of the NetworkNode elements that follows a handler: the node
\* with isHighlighted sets emissive and emissiveIntensity on the materials
\* of its model
RenderNodes ==
    emissive' = emissive \cup {MaterialOf(id) : id \in NodeIds \cap {hoveredNode'}}

\* the <group> of NetworkLink binds onPointerEnter and onPointerLeave only:
\* the onClick prop is declared but neither destructured nor bound
NetworkLinkPointerDown(sourceId, targetId) ==
    UNCHANGED <<selectedTarget, selectedTooltip, hoveredNode, hoveredLink,
                autoTooltip>>

\* Date.now() - lastInteraction.current > 5000
IsInactive_inverted ==
    idle < IdleLimit

IsInactive ==
    idle > IdleLimit

----------------------------------------------------------------------------
(* Actions of the mounted view *)

topology ==
    <<nodes, links>>

hookState ==
    <<currentIndex, autoTooltipData, trace, tooltipTimer>>

selection ==
    <<selectedTarget, selectedTooltip>>

\* the effects of the first commit: the polling effect starts its interval,
\* the auto-cycle effect calls moveTooltip once and starts its interval, the
\* inactivity effect adds the container's listeners and starts its interval
MountEffects ==
    /\ ~Mounted
    /\ ~unmounted
    /\ polling' = TRUE
    /\ containerListeners' = TRUE
    /\ AutoCycleEffect(autoIntervals)
    /\ checkTimer' = CheckSecs
    /\ lastEvent' = Event("effects", Null, Null)
    /\ UNCHANGED <<canvas, rotateVars, cameraVars, unmounted, loopVars,
                   positionVars>>
    /\ UNCHANGED <<pageVars, calc, flowVars, materialVars, topology, hoveredNode, hoveredLink, autoTooltip, idle,
                   selection, sinceInput>>

TooltipTick_pausedInHover ==
    /\ Mounted
    /\ HasInterval
    /\ tooltipTimer = 0
    /\ IF autoTooltip
       THEN moveTooltip
       ELSE UNCHANGED <<currentIndex, autoTooltipData, trace, crashed>>
    /\ tooltipTimer' = TickSecs
    /\ lastEvent' = TimerEvent
    /\ UNCHANGED <<pageVars, calcVars, sceneVars, topology, hoveredNode, hoveredLink, autoTooltip, idle,
                   checkTimer, selection, sinceInput>>

TooltipTick ==
    /\ Mounted
    /\ HasInterval
    /\ tooltipTimer = 0
    /\ moveTooltip
    /\ tooltipTimer' = TickSecs
    /\ lastEvent' = TimerEvent
    /\ UNCHANGED <<pageVars, calcVars, sceneVars, topology, hoveredNode, hoveredLink, autoTooltip, idle,
                   checkTimer, selection, sinceInput>>

checkInactivity_clearsHover ==
    /\ Mounted
    /\ checkTimer = 0
    /\ autoTooltip' = IF IsInactive THEN TRUE ELSE autoTooltip
    /\ hoveredNode' = IF IsInactive THEN Null ELSE hoveredNode
    /\ hoveredLink' = IF IsInactive THEN NullLink ELSE hoveredLink
    /\ checkTimer' = CheckSecs
    /\ lastEvent' = TimerEvent
    /\ UNCHANGED <<pageVars, calcVars, sceneVars, topology, hookState, crashed, idle,
                   selection, sinceInput>>

checkInactivity ==
    /\ Mounted
    /\ checkTimer = 0
    /\ autoTooltip' = IF IsInactive THEN TRUE ELSE autoTooltip
    /\ checkTimer' = CheckSecs
    /\ lastEvent' = TimerEvent
    /\ UNCHANGED <<pageVars, calcVars, sceneVars, topology, hookState, crashed, hoveredNode, hoveredLink, idle,
                   selection, sinceInput>>

handleMouseMove_keepsMode ==
    /\ containerListeners
    /\ idle' = 0
    /\ autoTooltip' = autoTooltip
    /\ sinceInput' = 0
    /\ lastEvent' = Event("mousemove", Null, Null)
    /\ UNCHANGED <<pageVars, calcVars, sceneVars, topology, hookState, crashed, hoveredNode, hoveredLink,
                   checkTimer, selection>>

handleMouseMove ==
    /\ containerListeners
    /\ idle' = 0
    /\ autoTooltip' = FALSE
    /\ sinceInput' = 0
    /\ lastEvent' = Event("mousemove", Null, Null)
    /\ UNCHANGED <<pageVars, calcVars, sceneVars, topology, hookState, crashed, hoveredNode, hoveredLink,
                   checkTimer, selection>>

handleMouseLeave ==
    /\ containerListeners
    /\ idle' = 0
    /\ sinceInput' = 0
    /\ lastEvent' = Event("mouseleave", Null, Null)
    /\ UNCHANGED <<pageVars, calcVars, sceneVars, topology, hookState, crashed, hoveredNode, hoveredLink,
                   autoTooltip, checkTimer, selection>>

\* onChange={(e) => setAutoTooltip(e.target.checked)} of a controlled checkbox
AutoTooltipCheckbox ==
    /\ Mounted
    /\ autoTooltip' = ~autoTooltip
    /\ sinceInput' = 0
    /\ lastEvent' = Event("checkbox", Null, Null)
    /\ UNCHANGED <<pageVars, calcVars, sceneVars, topology, hookState, crashed, hoveredNode, hoveredLink, idle,
                   checkTimer, selection>>

NodePointerEnter(id) ==
    /\ Mounted
    /\ handleNodeHover(id)
    /\ RenderNodes
    /\ sinceInput' = 0
    /\ lastEvent' = Event("nodeEnter", id, Null)
    /\ UNCHANGED <<pageVars, calc, flowVars, timerVars, sceneVars, topology, hookState, crashed, autoTooltip, idle, checkTimer,
                   selection>>

NodePointerLeave(id) ==
    /\ Mounted
    /\ handleNodeHover(Null)
    /\ RenderNodes
    /\ sinceInput' = 0
    /\ lastEvent' = Event("nodeLeave", id, Null)
    /\ UNCHANGED <<pageVars, calc, flowVars, timerVars, sceneVars, topology, hookState, crashed, autoTooltip, idle, checkTimer,
                   selection>>

NodePointerDown(id) ==
    /\ Mounted
    /\ handleNodeClick(id)
    /\ RenderNodes
    /\ sinceInput' = 0
    /\ lastEvent' = Event("nodeDown", id, Null)
    /\ UNCHANGED <<pageVars, calc, flowVars, timerVars, sceneVars, topology, hookState, crashed, idle, checkTimer>>

LinkPointerEnter(l) ==
    /\ Mounted
    /\ LinkRendered(l)
    /\ handleLinkHover(l.source, l.target)
    /\ RenderNodes
    /\ sinceInput' = 0
    /\ lastEvent' = Event("linkEnter", l.source, l.target)
    /\ UNCHANGED <<pageVars, calc, flowVars, timerVars, sceneVars, topology, hookState, crashed, autoTooltip, idle, checkTimer,
                   selection>>

LinkPointerLeave(l) ==
    /\ Mounted
    /\ LinkRendered(l)
    /\ handleLinkHover(l.source, Null)
    /\ RenderNodes
    /\ sinceInput' = 0
    /\ lastEvent' = Event("linkLeave", l.source, l.target)
    /\ UNCHANGED <<pageVars, calc, flowVars, timerVars, sceneVars, topology, hookState, crashed, autoTooltip, idle, checkTimer,
                   selection>>

LinkPointerDown(l) ==
    /\ Mounted
    /\ LinkRendered(l)
    /\ NetworkLinkPointerDown(l.source, l.target)
    /\ RenderNodes
    /\ sinceInput' = 0
    /\ lastEvent' = Event("linkDown", l.source, l.target)
    /\ UNCHANGED <<pageVars, calc, flowVars, timerVars, sceneVars, topology, hookState, crashed, idle, checkTimer>>

\* one second passes; a due interval callback runs before the clock moves on
Advance ==
    /\ Mounted
    /\ checkTimer > 0
    /\ HasInterval => tooltipTimer > 0
    /\ checkTimer' = checkTimer - 1
    /\ tooltipTimer' = IF HasInterval THEN tooltipTimer - 1 ELSE tooltipTimer
    /\ idle' = Min(idle + 1, ClockCap)
    /\ sinceInput' = Min(sinceInput + 1, ClockCap)
    /\ lastEvent' = TimerEvent
    /\ UNCHANGED <<pageVars, calcVars, sceneVars, topology, currentIndex, autoTooltipData, trace, crashed,
                   hoveredNode, hoveredLink, autoTooltip, selection>>

----------------------------------------------------------------------------
(* The Canvas children: AutoRotate and CameraController *)

SceneMounted ==
    canvas = "mounted"

Gestures ==
    {"mousedown", "wheel", "touchstart"}

\* if (!isAutoRotating.current && Date.now() - lastInteraction.current > 5000)
ShouldResume_nowait ==
    ~isAutoRotating

ShouldResume ==
    ~isAutoRotating /\ rotateIdle > RotateIdleSteps

\* <PerspectiveCamera makeDefault position={[0, 15, 25]} />
Home ==
    <<"camera", "home">>

\* the sphere center: target={[0, 0, 0]} and controls.target.set(0, 0, 0)
Origin ==
    <<"origin">>

\* the viewpoint computed from the selected target and its tooltip anchor
CameraDestination(targetPosition, tooltipPosition) ==
    <<"view", targetPosition, tooltipPosition>>

NoTween ==
    [from |-> <<>>, to |-> <<>>, elapsed |-> 0, playing |-> FALSE]

\* TWEEN.Easing.Cubic.InOut at n / TweenSteps, as a fraction of EaseDen
EaseDen ==
    2 * TweenSteps * TweenSteps * TweenSteps

EaseNum(n) ==
    IF 2 * n < TweenSteps
    THEN 8 * n * n * n
    ELSE EaseDen - (2 * TweenSteps - 2 * n) * (2 * TweenSteps - 2 * n)
                       * (2 * TweenSteps - 2 * n)

\* the point from + (to - from) * num / EaseDen
Interpolated(from, to, num) ==
    IF from = to \/ num = EaseDen THEN to
    ELSE IF num = 0 THEN from
    ELSE <<"lerp", from, to, num>>

\* the value the tween hands to onUpdate after `elapsed` steps
TweenValue_jump(from, to, elapsed) ==
    to

TweenValue(from, to, elapsed) ==
    Interpolated(from, to, EaseNum(elapsed))

\* the number of selections the camera position depends on
RECURSIVE Depth(_)
Depth(p) ==
    IF Len(p) = 4 /\ p[1] = "lerp" THEN 1 + Depth(p[2]) ELSE 0

\* a tween as TWEEN.update() sees it
Running(from, to, elapsed) ==
    [from |-> from, to |-> to, elapsed |-> elapsed]

\* the group after posTween.stop() of the latest tween: a tween that is
\* still playing is the last one added, and stop() removes it
StopLatest_leaked(group, tween) ==
    group

StopLatest(group, tween) ==
    IF tween.playing /\ group # <<>>
    THEN SubSeq(group, 1, Len(group) - 1)
    ELSE group

\* the effect of CameraController on [targetPosition, tooltipPosition]: the
\* cleanup stops the previous tween, the body starts the next one
CameraEffect(targetPosition, tooltipPosition) ==
    IF targetPosition = <<>> \/ tooltipPosition = <<>>
    THEN /\ posTween' = posTween
         /\ UNCHANGED <<cameraPosition, orbitTarget, tweenGroup>>
    ELSE /\ posTween' = [from |-> cameraPosition,
                         to |-> CameraDestination(targetPosition, tooltipPosition),
                         elapsed |-> 0,
                         playing |-> TRUE]
         /\ tweenGroup' =
               Append(StopLatest(tweenGroup, posTween),
                      Running(cameraPosition,
                              CameraDestination(targetPosition, tooltipPosition), 0))
         /\ orbitTarget' = Origin
         /\ UNCHANGED cameraPosition

widgetRest ==
    <<currentIndex, autoTooltipData, tooltipTimer, idle, checkTimer, crashed,
      trace, sinceInput>>

\* the keys of nodeRefs: new Map(networkData.nodes.map(node => [node.id, ...]))
RefIds ==
    NodeIds

\* nodePositions.get(id) finds a position
HasPosition(id) ==
    id \in nodePositions

\* if (sourcePos && targetPos) return <NetworkLink ... />
LinkDrawn_either(l) ==
    HasPosition(l.source) \/ HasPosition(l.target)

LinkDrawn(l) ==
    HasPosition(l.source) /\ HasPosition(l.target)

\* the interval callback of the polling effect
updatePositions ==
    /\ polling
    /\ nodePositions' = {id \in RefIds : id \in nodeHandles}
    /\ lastEvent' = TimerEvent
    /\ UNCHANGED <<canvas, rotateVars, cameraVars, effectVars, loopVars,
                   nodeHandles>>
    /\ UNCHANGED <<pageVars, calcVars, topology, widgetRest, hoveredNode, hoveredLink,
                   autoTooltip, selection>>

\* the first commit of the Canvas children, once the node model is loaded:
\* every NetworkNode attaches its handle, AutoRotate registers its window
\* listeners and switches auto-rotation on, CameraController finds no
\* selection and starts its animation-frame loop
CanvasMount ==
    /\ canvas = "none"
    /\ ~unmounted
    /\ canvas' = "mounted"
    /\ windowListeners' = TRUE
    /\ animating' = TRUE
    /\ nodeHandles' = RefIds
    /\ autoRotate' = TRUE
    /\ rotateIdle' = 0
    /\ CameraEffect(selectedTarget, selectedTooltip)
    /\ lastEvent' = Event("canvas", Null, Null)
    /\ UNCHANGED <<isAutoRotating, sinceGesture, effectVars, nodePositions>>
    /\ UNCHANGED <<pageVars, calcVars, topology, widgetRest, hoveredNode, hoveredLink,
                   autoTooltip, selection>>

\* mousedown, wheel or touchstart on the window
handleInteraction(kind) ==
    /\ windowListeners
    /\ rotateIdle' = 0
    /\ IF autoRotate
       THEN autoRotate' = FALSE /\ isAutoRotating' = FALSE
       ELSE UNCHANGED <<autoRotate, isAutoRotating>>
    /\ sinceGesture' = 0
    /\ lastEvent' = Event(kind, Null, Null)
    /\ UNCHANGED <<canvas, cameraVars, effectVars, loopVars, positionVars>>
    /\ UNCHANGED <<pageVars, calcVars, topology, widgetRest, hoveredNode, hoveredLink,
                   autoTooltip, selection>>

\* the useFrame callback of AutoRotate
RotateFrame ==
    /\ SceneMounted
    /\ IF ShouldResume
       THEN autoRotate' = TRUE /\ isAutoRotating' = TRUE
       ELSE UNCHANGED <<autoRotate, isAutoRotating>>
    /\ lastEvent' = Event("useFrame", Null, Null)
    /\ UNCHANGED <<canvas, rotateIdle, sinceGesture, cameraVars, effectVars,
                   loopVars, positionVars>>
    /\ UNCHANGED <<pageVars, calcVars, topology, widgetRest, hoveredNode, hoveredLink,
                   autoTooltip, selection>>

\* a pointer-down on a node: handleNodeClick, then the render it causes
\* re-runs the effect of CameraController
SelectNode(id) ==
    /\ SceneMounted
    /\ Depth(cameraPosition) < MaxSelections
    /\ handleNodeClick(id)
    /\ CameraEffect(selectedTarget', selectedTooltip')
    /\ RenderNodes
    /\ lastEvent' = Event("nodeDown", id, Null)
    /\ UNCHANGED <<canvas, rotateVars, effectVars, loopVars, positionVars>>
    /\ UNCHANGED <<pageVars, calc, flowVars, timerVars, topology, widgetRest>>

\* the animate callback of CameraController: TWEEN.update()
Unfinished(t) ==
    t.elapsed < TweenSteps

\* camera.position after every tween of the group has run its onUpdate, in
\* the order of the group
GroupValue ==
    IF tweenGroup = <<>>
    THEN cameraPosition
    ELSE LET t == tweenGroup[Len(tweenGroup)]
         IN  TweenValue(t.from, t.to, t.elapsed)

TweenFrame ==
    /\ animating
    /\ cameraPosition' = GroupValue
    /\ tweenGroup' = SelectSeq(tweenGroup, Unfinished)
    /\ posTween' = IF posTween.playing
                   THEN [posTween EXCEPT
                            !.playing = posTween.elapsed < TweenSteps]
                   ELSE posTween
    /\ lastEvent' = Event("animate", Null, Null)
    /\ UNCHANGED <<canvas, rotateVars, orbitTarget, effectVars, loopVars,
                   positionVars>>
    /\ UNCHANGED <<pageVars, calcVars, topology, widgetRest, hoveredNode, hoveredLink,
                   autoTooltip, selection>>

\* one step of StepMs passes
SceneAdvance ==
    /\ SceneMounted
    /\ rotateIdle' = Min(rotateIdle + 1, RotateCap)
    /\ sinceGesture' = Min(sinceGesture + 1, RotateCap)
    /\ posTween' = IF posTween.playing
                   THEN [posTween EXCEPT
                            !.elapsed = Min(posTween.elapsed + 1, TweenSteps)]
                   ELSE posTween
    /\ tweenGroup' = [i \in DOMAIN tweenGroup |->
                         Running(tweenGroup[i].from, tweenGroup[i].to,
                                 Min(tweenGroup[i].elapsed + 1, TweenSteps))]
    /\ lastEvent' = TimerEvent
    /\ UNCHANGED <<canvas, autoRotate, isAutoRotating, cameraPosition, orbitTarget,
                   effectVars, loopVars, positionVars>>
    /\ UNCHANGED <<pageVars, calcVars, topology, widgetRest, hoveredNode, hoveredLink,
                   autoTooltip, selection>>

Intensities ==
    {"low", "medium", "high"}

IntensityOp(intensity) ==
    CASE intensity = "low" -> "setLow"
      [] intensity = "medium" -> "setMedium"
      [] intensity = "high" -> "setHigh"

\* link.source === sourceId && link.target === targetId
Matches_either(l, sourceId, targetId) ==
    l.source = sourceId \/ l.target = targetId

Matches(l, sourceId, targetId) ==
    l.source = sourceId /\ l.target = targetId

\* the change of a <select> of the control panel: setNetworkData maps the
\* links; the new links array re-runs the effect of useTooltipAutoMovement,
\* which clears its interval, calls moveTooltip and sets a new interval
updateTrafficIntensity(sourceId, targetId, intensity) ==
    /\ Mounted
    /\ links' = [i \in DOMAIN links |->
                    IF Matches(links[i], sourceId, targetId)
                    THEN [links[i] EXCEPT !.trafficIntensity = intensity]
                    ELSE links[i]]
    /\ nodes' = nodes
    /\ AutoCycleEffect(AfterCleanup(autoIntervals))
    /\ lastEvent' = Event(IntensityOp(intensity), sourceId, targetId)
    /\ UNCHANGED sceneVars
    /\ UNCHANGED <<pageVars, calc, flowVars, materialVars, hoveredNode, hoveredLink, autoTooltip, idle,
                   checkTimer, selection, sinceInput>>

\* clearInterval(interval)
Cleared ==
    -1

\* posTween.stop()
Stopped_leaked(tween) ==
    tween

Stopped(tween) ==
    [tween EXCEPT !.playing = FALSE]

\* the view is unmounted: React runs the cleanup of every effect of
\* NetworkTopology, of useTooltipAutoMovement and, once the Canvas children
\* are mounted, of AutoRotate and CameraController
Unmount ==
    /\ Mounted
    /\ unmounted' = TRUE
    /\ polling' = FALSE
    /\ containerListeners' = FALSE
    /\ checkTimer' = Cleared
    /\ tooltipTimer' = IF HasInterval THEN Cleared ELSE tooltipTimer
    /\ autoIntervals' = AfterCleanup(autoIntervals)
    /\ IF SceneMounted
       THEN /\ canvas' = "unmounted"
            /\ windowListeners' = FALSE
            /\ posTween' = Stopped(posTween)
            /\ tweenGroup' = StopLatest(tweenGroup, posTween)
            /\ animating' = FALSE
            /\ nodeHandles' = {}
       ELSE UNCHANGED <<canvas, windowListeners, posTween, tweenGroup, animating,
                        nodeHandles>>
    /\ lastEvent' = Event("unmount", Null, Null)
    /\ UNCHANGED <<rotateVars, cameraPosition, orbitTarget, nodePositions>>
    /\ UNCHANGED <<pageVars, calc, flowVars, materialVars, topology, currentIndex, autoTooltipData, trace, crashed,
                   hoveredNode, hoveredLink, autoTooltip, idle, selection,
                   sinceInput>>

----------------------------------------------------------------------------
(* Vector geometry in exact arithmetic *)

\* const SPHERE_RADIUS = 8
SPHERE_RADIUS ==
    8

\* offset: number = 1.5, as a fraction
OffsetNum ==
    3

OffsetDen ==
    2

Zero ==
    <<0, 0, 0>>

VAdd(a, b) ==
    <<a[1] + b[1], a[2] + b[2], a[3] + b[3]>>

VScale(k, a) ==
    <<k * a[1], k * a[2], k * a[3]>>

Dot(a, b) ==
    a[1] * b[1] + a[2] * b[2] + a[3] * b[3]

Cross(a, b) ==
    <<a[2] * b[3] - a[3] * b[2],
      a[3] * b[1] - a[1] * b[3],
      a[1] * b[2] - a[2] * b[1]>>

ISqrt(n) ==
    CHOOSE r \in 0..n : r * r <= n /\ n < (r + 1) * (r + 1)

\* Vector3.length(), exact on the points used here
length(v) ==
    ISqrt(Dot(v, v))

Perms3 ==
    {p \in [1..3 -> 1..3] : \A i, j \in 1..3 : p[i] = p[j] => i = j}

Permuted(v) ==
    {<<v[p[1]], v[p[2]], v[p[3]]>> : p \in Perms3}

Signed(v) ==
    {<<a * v[1], b * v[2], c * v[3]>> : a, b, c \in {-1, 1}}

\* points of the unit sphere with rational coordinates: the poles and axis
\* points, and the points with coordinates 3/5 and 4/5; every coordinate is
\* written in units of 1 / UnitLength, so that it is an integer
UnitLength ==
    length(<<3, 4, 0>>)

UnitPoints ==
    UNION {Signed(w) : w \in Permuted(<<UnitLength, 0, 0>>) \cup Permuted(<<3, 4, 0>>)}

\* position: node.position[i] * SPHERE_RADIUS
ScaledPosition(u) ==
    VScale(SPHERE_RADIUS, u)

\* a vector given by its direction and its length num / den; the zero
\* vector has no direction and length 0
Polar(dir, num, den) ==
    [dir |-> dir, num |-> num, den |-> den]

\* Vector3.normalize(): divideScalar(this.length() || 1)
normalize(v) ==
    IF v = Zero THEN Polar(Zero, 0, 1) ELSE Polar(v, 1, 1)

multiplyScalar(p, knum, kden) ==
    Polar(p.dir, p.num * knum, p.den * kden)

\* ensureOutsideSphere on numbers: normalize, then scale to radius * offset
AnchorOutsideSphere(position, radius) ==
    multiplyScalar(normalize(position), radius * OffsetNum, OffsetDen)

\* [(a[0] + b[0]) / 2, (a[1] + b[1]) / 2, (a[2] + b[2]) / 2]
ChordMidpoint(a, b) ==
    <<(a[1] + b[1]) \div 2, (a[2] + b[2]) \div 2, (a[3] + b[3]) \div 2>>

\* moveTooltip, node branch: the radius and the anchor of a node
NodeAnchor(position) ==
    [radius |-> length(position),
     reference |-> position,
     anchor |-> AnchorOutsideSphere(position, length(position))]

\* moveTooltip, link branch: the radius, the midpoint and the anchor of a link
LinkAnchor(sourcePos, targetPos) ==
    [radius |-> length(sourcePos),
     reference |-> ChordMidpoint(sourcePos, targetPos),
     anchor |-> AnchorOutsideSphere(ChordMidpoint(sourcePos, targetPos),
                                    length(sourcePos))]

sceneAndView ==
    <<widgetVars, pageVars, sceneVars, materialVars, timerVars>>

\* the anchor of the tooltip of a node or of a link is computed
ComputeAnchor ==
    /\ calc.op \in {"nodeAnchor", "linkAnchor"}
    /\ ~calc.done
    /\ calc' = [calc EXCEPT
                   !.done = TRUE,
                   !.out = IF calc.op = "nodeAnchor"
                           THEN NodeAnchor(calc.source)
                           ELSE LinkAnchor(calc.source, calc.target)]
    /\ UNCHANGED <<sceneAndView, flowVars>>

NoAnchor ==
    [radius |-> 0, reference |-> Zero, anchor |-> Polar(Zero, 0, 1)]

\* the reference vector new THREE.Vector3(0, 1, 0)
Up ==
    <<0, 1, 0>>

Magnitude(n) ==
    IF n < 0 THEN -n ELSE n

\* the direction of v in lowest integer terms; the zero vector stays
Primitive(v) ==
    LET g == GCD(GCD(Magnitude(v[1]), Magnitude(v[2])), Magnitude(v[3]))
    IN  IF g = 0 THEN v ELSE <<v[1] \div g, v[2] \div g, v[3] \div g>>

\* quaternions <<x, y, z, w>> are kept up to a positive factor: the unit
\* quaternion of the code is q / sqrt(QLengthSq(q))
QDot(p, q) ==
    p[1] * q[1] + p[2] * q[2] + p[3] * q[3] + p[4] * q[4]

QLengthSq(q) ==
    QDot(q, q)

QScale(k, q) ==
    <<k * q[1], k * q[2], k * q[3], k * q[4]>>

\* the same rotation in lowest integer terms
QPrimitive(q) ==
    LET g == GCD(GCD(Magnitude(q[1]), Magnitude(q[2])),
                 GCD(Magnitude(q[3]), Magnitude(q[4])))
    IN  IF g = 0 THEN q ELSE <<q[1] \div g, q[2] \div g, q[3] \div g, q[4] \div g>>

QAdd(p, q) ==
    <<p[1] + q[1], p[2] + q[2], p[3] + q[3], p[4] + q[4]>>

\* Quaternion.setFromUnitVectors(Up, v.clone().normalize()): with r the
\* dot product plus one, the opposite case turns about the z axis, any other
\* case takes the cross product for x, y, z and r for w
setFromUnitVectors(v) ==
    LET d == Primitive(v)
    IN  IF Dot(Up, d) + length(d) = 0
        THEN <<0, 0, 1, 0>>
        ELSE <<Cross(Up, d)[1], Cross(Up, d)[2], Cross(Up, d)[3],
               Dot(Up, d) + length(d)>>

IsSquare(n) ==
    ISqrt(n) * ISqrt(n) = n

\* the two unit quaternions have a rational ratio of lengths
Commensurable(start, end) ==
    IsSquare(QLengthSq(setFromUnitVectors(start))
                * QLengthSq(setFromUnitVectors(end)))

\* Quaternion.slerpQuaternions(qa, qb, t) at t = halves / 2: the ends are
\* copied; half-way the two unit quaternions, qb negated when the dot
\* product is negative, have equal weights
slerpQuaternions(qa, qb, halves) ==
    LET qbs == IF QDot(qa, qb) < 0 THEN QScale(-1, qb) ELSE qb
        k == ISqrt(QLengthSq(qa) * QLengthSq(qb))
    IN  CASE halves = 0 -> qa
          [] halves = 2 -> qb
          [] OTHER -> QPrimitive(QAdd(QScale(k, qa),
                                      QScale(QLengthSq(qa), qbs)))

\* Vector3.applyQuaternion(q), up to the factor QLengthSq(q)
applyQuaternion(v, q) ==
    LET u == <<q[1], q[2], q[3]>>
        w == q[4]
    IN  VAdd(VAdd(VScale(w * w - Dot(u, u), v), VScale(2 * Dot(u, v), u)),
             VScale(2 * w, Cross(u, v)))

\* the direction of the interpolated point
slerpPoint(start, end, halves) ==
    Primitive(applyQuaternion(Up,
        slerpQuaternions(setFromUnitVectors(start), setFromUnitVectors(end),
                         halves)))

\* getGreatCirclePoint(start, end, t, radius) at t = halves / 2
getGreatCirclePoint(start, end, halves, radius) ==
    multiplyScalar(normalize(slerpPoint(start, end, halves)), radius, 1)

\* a call of getGreatCirclePoint
ComputeArcPoint ==
    /\ calc.op = "arc"
    /\ ~calc.done
    /\ calc' = [calc EXCEPT
                   !.done = TRUE,
                   !.out = getGreatCirclePoint(calc.start, calc.end,
                                               calc.halves, calc.radius)]
    /\ UNCHANGED <<sceneAndView, flowVars>>

----------------------------------------------------------------------------
(* distributePointsOnSphere *)

\* a number: NaN, an infinity, or the fraction num / den
Number(kind, num, den) ==
    [kind |-> kind, num |-> num, den |-> den]

NaN ==
    Number("NaN", 0, 1)

Infinity ==
    Number("Infinity", 0, 1)

MinusInfinity ==
    Number("-Infinity", 0, 1)

IsFinite(x) ==
    x.kind = "finite"

\* a / b of two integers; a division by 0 does not throw
Divide(a, b) ==
    IF b # 0 THEN Number("finite", a, b)
    ELSE IF a = 0 THEN NaN
    ELSE IF a > 0 THEN Infinity ELSE MinusInfinity

\* 1 - q * 2
OneMinusTwice(q) ==
    IF q = NaN THEN NaN
    ELSE IF q = Infinity THEN MinusInfinity
    ELSE IF q = MinusInfinity THEN Infinity
    ELSE Number("finite", q.den - 2 * q.num, q.den)

\* Math.cos(theta) * Math.sqrt(1 - y * y) and the same with Math.sin, then
\* the product with radius: NaN unless y is within [-1, 1]; a finite value
\* is kept as the function, the index and the y it is computed from
Horizontal(fn, i, y, radius) ==
    IF IsFinite(y) /\ y.num * y.num <= y.den * y.den
    THEN [kind |-> "finite", fn |-> fn, i |-> i, y |-> y, radius |-> radius]
    ELSE [kind |-> "NaN", fn |-> fn, i |-> i, y |-> y, radius |-> radius]

\* y * radius
Vertical(y, radius) ==
    IF IsFinite(y) THEN Number("finite", y.num * radius, y.den) ELSE y

\* the point of index i
SpherePoint(i, count, radius) ==
    LET y == OneMinusTwice(Divide(i, count - 1))
    IN  [x |-> Horizontal("cos", i, y, radius),
         y |-> Vertical(y, radius),
         z |-> Horizontal("sin", i, y, radius)]

\* one pass of the loop of distributePointsOnSphere
PushPoint ==
    /\ calc.op = "distribute"
    /\ calc.i < calc.count
    /\ calc' = [calc EXCEPT
                   !.i = calc.i + 1,
                   !.zeroDivisions = IF calc.count - 1 = 0
                                     THEN calc.zeroDivisions + 1
                                     ELSE calc.zeroDivisions,
                   !.points = Append(calc.points,
                                     SpherePoint(calc.i, calc.count, calc.radius))]
    /\ UNCHANGED <<sceneAndView, flowVars>>

\* the loop has ended: return points
DistributeDone ==
    calc.op = "distribute" /\ calc.i = calc.count

----------------------------------------------------------------------------
(* The sampling loop of findClosestPointOnGreatCircle *)

numPoints ==
    32

\* let closestPoint = new THREE.Vector3(): no sample has been copied
NoSample ==
    -1

\* point.distanceTo(pathPoint) for sample i: the samples nearest to the
\* query point are those around the indices a and b, and samples within
\* plateau of them are equally distant
SampleDistance(i, a, b, plateau) ==
    LET da == Magnitude(i - a)
        db == Magnitude(i - b)
        d == IF da < db THEN da ELSE db
    IN  Number("finite", IF d < plateau THEN plateau ELSE d, 1)

\* distance < minDistance
Closer_orEqual(distance, minDistance) ==
    \/ minDistance = Infinity
    \/ IsFinite(minDistance) /\ distance.num <= minDistance.num

Closer(distance, minDistance) ==
    \/ minDistance = Infinity
    \/ IsFinite(minDistance) /\ distance.num < minDistance.num

\* one pass of the loop: sample i is measured and copied when it is closer
ClosestStep ==
    /\ calc.op = "closest"
    /\ calc.i <= numPoints
    /\ LET distance == SampleDistance(calc.i, calc.a, calc.b, calc.plateau)
       IN  calc' = IF Closer(distance, calc.minDistance)
                   THEN [calc EXCEPT !.i = calc.i + 1,
                                     !.minDistance = distance,
                                     !.closestPoint = calc.i]
                   ELSE [calc EXCEPT !.i = calc.i + 1]
    /\ UNCHANGED <<sceneAndView, flowVars>>

\* the loop has ended: return closestPoint
ClosestDone ==
    calc.op = "closest" /\ calc.i = numPoints + 1

----------------------------------------------------------------------------
(* TrafficFlow: the particles of one link *)

\* speeds are multiples of 1 / SpeedDen per second
SpeedDen ==
    10

\* the clock is read in multiples of 1 / TimeDen seconds
TimeDen ==
    5

\* Math.random() in steps of RandomStep / ProgressOne
RandomStep ==
    10

\* getIntensityParams: count, and speed in 1 / SpeedDen per second
getIntensityParams(intensity) ==
    [count |-> IF intensity = "low" THEN 20
               ELSE IF intensity = "medium" THEN 40 ELSE 60,
     speed |-> IF intensity = "low" THEN 3
               ELSE IF intensity = "medium" THEN 5 ELSE 7]

\* progress 1.0 in the units of progress, 1 / (SpeedDen * TimeDen)
ProgressOne ==
    SpeedDen * TimeDen

\* the particles that are followed: the first ones of the count
Particles(intensity) ==
    1..Min(MaxParticles, getIntensityParams(intensity).count)

\* !progress.current || progress.current.length !== count, and the same test
\* on offsets.current; a null ref has length 0 here
Reinitialise_always(len, count) ==
    TRUE

Reinitialise(len, count) ==
    len # count

\* the values Math.random() is drawn from, all below 1.0
RandomProgress ==
    {p \in 0..(ProgressOne - 1) : p % RandomStep = 0}

\* progress.current[i] > 1 after the addition
Wraps_atOne(p, speed, delta) ==
    p + speed * delta >= ProgressOne

Wraps(p, speed, delta) ==
    p + speed * delta > ProgressOne

\* progress.current[i] += speed * delta, then the wrap to 0
NextProgress_kept(p, speed, delta) ==
    p + speed * delta

NextProgress(p, speed, delta) ==
    IF Wraps(p, speed, delta) THEN 0 ELSE p + speed * delta

\* the first render with an intensity, or a render with another intensity:
\* the count differs, so progress and offsets are filled afresh
Render(intensity) ==
    LET count == getIntensityParams(intensity).count
        newProgress == Reinitialise(arrayLength.progress, count)
        newOffsets == Reinitialise(arrayLength.offsets, count)
    IN  /\ newOffsets => draws + MaxParticles <= MaxDraws
        /\ flowIntensity' = intensity
        /\ IF newProgress
           THEN /\ progress' \in [Particles(intensity) -> RandomProgress]
                /\ progress0' = progress'
                /\ flowElapsed' = 0
           ELSE UNCHANGED <<progress, progress0, flowElapsed>>
        /\ IF newOffsets
           THEN /\ offsets' = [i \in Particles(intensity) |-> draws + i]
                /\ draws' = draws + Cardinality(Particles(intensity))
           ELSE UNCHANGED <<offsets, draws>>
        /\ arrayLength' = [progress |-> count, offsets |-> count]
        /\ flowStep' = IF newProgress \/ newOffsets THEN "init" ELSE "kept"
        /\ UNCHANGED <<lastTime, calc, sceneAndView>>

\* the useFrame callback, d time units after the previous frame (after the
\* start of the clock for the first one)
useFrame(d) ==
    /\ flowIntensity # "none"
    /\ lastTime + d <= MaxTime
    /\ LET time == lastTime + d
           delta == IF lastTime = 0 THEN 0 ELSE time - lastTime
           speed == getIntensityParams(flowIntensity).speed
           wrapping == {i \in DOMAIN progress : Wraps(progress[i], speed, delta)}
       IN  /\ lastTime' = time
           /\ progress' = [i \in DOMAIN progress |->
                              NextProgress(progress[i], speed, delta)]
           /\ offsets' = [i \in DOMAIN offsets |->
                             IF i \in wrapping
                             THEN draws + Cardinality({j \in wrapping : j <= i})
                             ELSE offsets[i]]
           /\ draws' = draws + Cardinality(wrapping)
           /\ flowElapsed' = flowElapsed + delta
    /\ flowStep' = "frame"
    /\ UNCHANGED <<flowIntensity, progress0, arrayLength, calc, sceneAndView>>

----------------------------------------------------------------------------
(* The page: nettopology.init and the automatic initialisation *)

Entries ==
    {"main.tsx", "NetworkTopology.tsx"}

\* const container = document.getElementById('nettopology'); if (!container) ...
ContainerFound_assumed ==
    TRUE

ContainerFound ==
    containerExists

\* nettopology.init: createRoot(container).render(...) adds a root; no root
\* is ever unmounted, the earlier ones stay mounted with their effects
init(origin) ==
    /\ calls' = Append(calls, origin)
    /\ IF ~ContainerFound
       THEN /\ consoleErrors' = consoleErrors + 1
            /\ UNCHANGED <<mounts, thrown>>
       ELSE IF ~containerExists
       THEN \* createRoot(null) throws
            /\ thrown' = TRUE
            /\ UNCHANGED <<mounts, consoleErrors>>
       ELSE /\ mounts' = Append(mounts, origin)
            /\ UNCHANGED <<consoleErrors, thrown>>

noInit ==
    UNCHANGED <<calls, mounts, consoleErrors, thrown>>

\* if (!manualInitCalled) before the immediate automatic init, and
\* if (!manualInitCalled && !window.nettopology._manualInitCalled) in the listener
AutoInitSuppressed ==
    entry = "NetworkTopology.tsx" /\ manualInitCalled

\* document.readyState === 'complete' || document.readyState === 'interactive'
DomReady ==
    readyState \in {"complete", "interactive"}

\* the module-level code of the script
EvalScript ==
    /\ ~scriptEvaluated
    /\ scriptEvaluated' = TRUE
    /\ IF DomReady
       THEN /\ IF AutoInitSuppressed THEN noInit ELSE init("auto")
            /\ UNCHANGED listenerAdded
       ELSE /\ listenerAdded' = TRUE
            /\ noInit
    /\ UNCHANGED <<entry, readyState, dclFired, manualInitCalled, containerExists>>
    /\ UNCHANGED <<widgetVars, sceneVars, calcVars>>

\* the parser reaches the end of the document
ParseDone ==
    /\ readyState = "loading"
    /\ readyState' = "interactive"
    /\ noInit
    /\ UNCHANGED <<entry, dclFired, scriptEvaluated, listenerAdded,
                   manualInitCalled, containerExists>>
    /\ UNCHANGED <<widgetVars, sceneVars, calcVars>>

\* the DOMContentLoaded event and the listener the script may have added
DOMContentLoaded ==
    /\ readyState = "interactive"
    /\ ~dclFired
    /\ dclFired' = TRUE
    /\ IF listenerAdded /\ ~AutoInitSuppressed THEN init("auto") ELSE noInit
    /\ UNCHANGED <<entry, readyState, scriptEvaluated, listenerAdded,
                   manualInitCalled, containerExists>>
    /\ UNCHANGED <<widgetVars, sceneVars, calcVars>>

LoadDone ==
    /\ readyState = "interactive"
    /\ dclFired
    /\ readyState' = "complete"
    /\ noInit
    /\ UNCHANGED <<entry, dclFired, scriptEvaluated, listenerAdded,
                   manualInitCalled, containerExists>>
    /\ UNCHANGED <<widgetVars, sceneVars, calcVars>>

\* the host calls window.nettopology.init(...)
ManualInit ==
    /\ scriptEvaluated
    /\ Len(calls) < MaxInitCalls
    /\ manualInitCalled' = IF entry = "NetworkTopology.tsx" THEN TRUE
                           ELSE manualInitCalled
    /\ init("manual")
    /\ UNCHANGED <<entry, readyState, dclFired, scriptEvaluated, listenerAdded,
                   containerExists>>
    /\ UNCHANGED <<widgetVars, sceneVars, calcVars>>

\* the element with id 'nettopology' enters the document
AddContainer ==
    /\ ~containerExists
    /\ containerExists' = TRUE
    /\ noInit
    /\ UNCHANGED <<entry, readyState, dclFired, scriptEvaluated, listenerAdded,
                   manualInitCalled>>
    /\ UNCHANGED <<widgetVars, sceneVars, calcVars>>

InitView ==
    /\ currentIndex = 0
    /\ autoTooltipData = NullTooltip
    /\ tooltipTimer = -1
    /\ hoveredNode = Null
    /\ hoveredLink = NullLink
    /\ autoTooltip = TRUE
    /\ idle = ClockCap
    /\ checkTimer = -1
    /\ selectedTarget = <<>>
    /\ selectedTooltip = <<>>
    /\ crashed = FALSE
    /\ trace = <<>>
    /\ sinceInput = ClockCap
    /\ lastEvent = NoEvent

NoCalc ==
    [op |-> "none"]

\* no TrafficFlow has rendered
NoFlow ==
    /\ flowIntensity = "none"
    /\ progress = <<>>
    /\ offsets = <<>>
    /\ draws = 0
    /\ lastTime = 0
    /\ progress0 = <<>>
    /\ flowElapsed = 0
    /\ arrayLength = [progress |-> 0, offsets |-> 0]
    /\ flowStep = "none"

\* the scene before its first commit
InitScene ==
    /\ canvas = "none"
    /\ autoRotate = FALSE
    /\ isAutoRotating = TRUE
    /\ rotateIdle = 0
    /\ sinceGesture = RotateCap
    /\ cameraPosition = Home
    /\ orbitTarget = Origin
    /\ posTween = NoTween
    /\ tweenGroup = <<>>
    /\ unmounted = FALSE
    /\ polling = FALSE
    /\ containerListeners = FALSE
    /\ windowListeners = FALSE
    /\ animating = FALSE
    /\ nodeHandles = {}
    /\ nodePositions = {}

InitPageState ==
    /\ readyState = "loading"
    /\ dclFired = FALSE
    /\ scriptEvaluated = FALSE
    /\ listenerAdded = FALSE
    /\ manualInitCalled = FALSE
    /\ containerExists = FALSE
    /\ mounts = <<>>
    /\ consoleErrors = 0
    /\ thrown = FALSE
    /\ calls = <<>>

InitPage ==
    /\ entry \in Entries
    /\ InitPageState
    /\ nodes = <<>>
    /\ links = <<>>
    /\ InitView
    /\ InitScene
    /\ calc = NoCalc
    /\ NoFlow
    /\ emissive = {}
    /\ autoIntervals = 0

NextPage ==
    \/ EvalScript
    \/ ParseDone
    \/ DOMContentLoaded
    \/ LoadDone
    \/ ManualInit
    \/ AddContainer

SpecPage ==
    InitPage /\ [][NextPage]_vars

----------------------------------------------------------------------------
(* Initial states: the topology is the input *)

NodeLists ==
    {SubSeq(NodePool, 1, k) : k \in 0..MaxNodes}

LinkPool(ns) ==
    LET ends == {ns[i] : i \in DOMAIN ns} \cup {Ghost}
    IN  {[source |-> s, target |-> t, trafficIntensity |-> "high"] :
            s \in ends, t \in ends}

LinkLists(ns) ==
    UNION {[1..m -> LinkPool(ns)] : m \in 0..MaxLinks}

\* the chain n1 -> n2 -> ... over the first k nodes, cut after m links
ChainLinks(ns, m) ==
    [i \in 1..m |-> [source |-> ns[i], target |-> ns[i + 1],
                     trafficIntensity |-> "high"]]

\* the interactive view over a chain topology
Init ==
    /\ \E k \in 0..MaxNodes : \E m \in 0..MaxLinks :
          /\ m = 0 \/ m < k
          /\ nodes = SubSeq(NodePool, 1, k)
          /\ links = ChainLinks(SubSeq(NodePool, 1, k), m)
    /\ InitView
    /\ InitScene
    /\ calc = NoCalc
    /\ NoFlow
    /\ emissive = {}
    /\ autoIntervals = 0
    /\ entry = "main.tsx"
    /\ InitPageState

\* the auto-cycle over any topology, malformed links included
InitCycle ==
    /\ nodes \in NodeLists
    /\ links \in LinkLists(nodes)
    /\ InitView
    /\ InitScene
    /\ calc = NoCalc
    /\ NoFlow
    /\ emissive = {}
    /\ autoIntervals = 0
    /\ entry = "main.tsx"
    /\ InitPageState

Next ==
    \/ MountEffects
    \/ TooltipTick
    \/ checkInactivity
    \/ handleMouseMove
    \/ handleMouseLeave
    \/ AutoTooltipCheckbox
    \/ \E id \in NodeIds : NodePointerEnter(id)
    \/ \E id \in NodeIds : NodePointerLeave(id)
    \/ \E id \in NodeIds : NodePointerDown(id)
    \/ \E i \in DOMAIN links : LinkPointerEnter(links[i])
    \/ \E i \in DOMAIN links : LinkPointerLeave(links[i])
    \/ \E i \in DOMAIN links : LinkPointerDown(links[i])
    \/ Advance

Spec ==
    Init /\ [][Next]_vars

\* auto-cycle running undisturbed: the timers run, no pointer input arrives
NextCycle ==
    \/ MountEffects
    \/ TooltipTick
    \/ checkInactivity
    \/ Advance

SpecCycle ==
    InitCycle /\ [][NextCycle]_vars

\* the Canvas children over a topology of nodes
InitCamera ==
    /\ \E k \in 1..MaxNodes : nodes = SubSeq(NodePool, 1, k)
    /\ links = <<>>
    /\ InitView
    /\ InitScene
    /\ calc = NoCalc
    /\ NoFlow
    /\ emissive = {}
    /\ autoIntervals = 0
    /\ entry = "main.tsx"
    /\ InitPageState

NextCamera ==
    \/ CanvasMount
    \/ \E kind \in Gestures : handleInteraction(kind)
    \/ RotateFrame
    \/ \E id \in NodeIds : SelectNode(id)
    \/ TweenFrame
    \/ SceneAdvance

SpecCamera ==
    InitCamera /\ [][NextCamera]_vars

\* the whole life of a view, from its first commit to its unmounting; the
\* intervals and the scene run on clocks of their own, in any interleaving
InitLifecycle ==
    /\ \E k \in 0..MaxNodes : nodes = SubSeq(NodePool, 1, k)
    /\ links = <<>>
    /\ InitView
    /\ InitScene
    /\ calc = NoCalc
    /\ NoFlow
    /\ emissive = {}
    /\ autoIntervals = 0
    /\ entry = "main.tsx"
    /\ InitPageState

NextLifecycle ==
    \/ MountEffects
    \/ CanvasMount
    \/ TooltipTick
    \/ checkInactivity
    \/ handleMouseMove
    \/ Advance
    \/ \E kind \in Gestures : handleInteraction(kind)
    \/ \E id \in NodeIds : SelectNode(id)
    \/ TweenFrame
    \/ Unmount

SpecLifecycle ==
    InitLifecycle /\ [][NextLifecycle]_vars

\* the polled positions and the links drawn from them, over any topology
NextLinks ==
    \/ MountEffects
    \/ CanvasMount
    \/ updatePositions
    \/ Unmount

SpecLinks ==
    InitCycle /\ [][NextLinks]_vars

\* links between neighbours of the node list, in either direction and with
\* any intensity; the same pair may occur more than once
NeighbourPairs(ns) ==
    {<<ns[i], ns[i + 1]>> : i \in 1..(Len(ns) - 1)}
        \cup {<<ns[i + 1], ns[i]>> : i \in 1..(Len(ns) - 1)}

NeighbourLinks(ns) ==
    {[source |-> p[1], target |-> p[2], trafficIntensity |-> x] :
        p \in NeighbourPairs(ns), x \in Intensities}

InitIntensity ==
    /\ nodes = SubSeq(NodePool, 1, MaxNodes)
    /\ links \in UNION {[1..m -> NeighbourLinks(nodes)] : m \in 0..MaxLinks}
    /\ InitView
    /\ InitScene
    /\ calc = NoCalc
    /\ NoFlow
    /\ emissive = {}
    /\ autoIntervals = 0
    /\ entry = "main.tsx"
    /\ InitPageState

\* the pairs a call names: those a link may have, and one that shares its
\* source with a link while no link has its target
CallPairs ==
    NeighbourPairs(nodes) \cup {<<nodes[1], Ghost>>}

NextIntensity ==
    \/ MountEffects
    \/ \E p \in CallPairs : \E x \in Intensities :
          updateTrafficIntensity(p[1], p[2], x)

SpecIntensity ==
    InitIntensity /\ [][NextIntensity]_vars

\* a node, or a link between two nodes, anywhere on the sphere
InitAnchor ==
    /\ nodes = <<>>
    /\ links = <<>>
    /\ InitView
    /\ InitScene
    /\ entry = "main.tsx"
    /\ InitPageState
    /\ \E op \in {"nodeAnchor", "linkAnchor"} : \E a, b \in UnitPoints :
          /\ op = "nodeAnchor" => b = a
          /\ op = "linkAnchor" => b # a
          /\ calc = [op |-> op, source |-> ScaledPosition(a),
                     target |-> ScaledPosition(b), done |-> FALSE, out |-> NoAnchor]
    /\ NoFlow
    /\ emissive = {}
    /\ autoIntervals = 0

NextAnchor ==
    ComputeAnchor

SpecAnchor ==
    InitAnchor /\ [][NextAnchor]_vars

\* two directions that are not opposite, the end of either magnitude
NotAntipodal(a, b) ==
    ~(Cross(a, b) = Zero /\ Dot(a, b) < 0)

InitArc ==
    /\ nodes = <<>>
    /\ links = <<>>
    /\ InitView
    /\ InitScene
    /\ entry = "main.tsx"
    /\ InitPageState
    /\ \E a, b \in UnitPoints : \E m \in 1..2 : \E h \in 0..2 :
          /\ NotAntipodal(a, b)
          /\ Commensurable(ScaledPosition(a), VScale(m, ScaledPosition(b)))
          /\ calc = [op |-> "arc", start |-> ScaledPosition(a),
                     end |-> VScale(m, ScaledPosition(b)), halves |-> h,
                     radius |-> length(ScaledPosition(a)), done |-> FALSE,
                     out |-> Polar(Zero, 0, 1)]
    /\ NoFlow
    /\ emissive = {}
    /\ autoIntervals = 0

NextArc ==
    ComputeArcPoint

SpecArc ==
    InitArc /\ [][NextArc]_vars

\* a TrafficFlow after its first render, before its first frame
InitFlow ==
    /\ nodes = <<>>
    /\ links = <<>>
    /\ InitView
    /\ InitScene
    /\ entry = "main.tsx"
    /\ InitPageState
    /\ calc = NoCalc
    /\ flowIntensity \in Intensities
    /\ progress \in [Particles(flowIntensity) -> RandomProgress]
    /\ offsets = [i \in Particles(flowIntensity) |-> i]
    /\ draws = Cardinality(Particles(flowIntensity))
    /\ lastTime = 0
    /\ progress0 = progress
    /\ flowElapsed = 0
    /\ arrayLength = [progress |-> getIntensityParams(flowIntensity).count,
                      offsets |-> getIntensityParams(flowIntensity).count]
    /\ flowStep = "init"
    /\ emissive = {}
    /\ autoIntervals = 0

NextFlow ==
    \/ \E intensity \in Intensities : Render(intensity)
    \/ \E d \in 0..MaxTime : useFrame(d)

SpecFlow ==
    InitFlow /\ [][NextFlow]_vars

\* a call of distributePointsOnSphere(count, radius); main.tsx has radius 1
InitDistribute ==
    /\ nodes = <<>>
    /\ links = <<>>
    /\ InitView
    /\ InitScene
    /\ entry = "main.tsx"
    /\ InitPageState
    /\ NoFlow
    /\ emissive = {}
    /\ autoIntervals = 0
    /\ \E count \in 0..MaxCount : \E radius \in 1..MaxRadius :
          calc = [op |-> "distribute", count |-> count, radius |-> radius,
                  i |-> 0, zeroDivisions |-> 0, points |-> <<>>]

NextDistribute ==
    PushPoint

SpecDistribute ==
    InitDistribute /\ [][NextDistribute]_vars

\* a call of findClosestPointOnGreatCircle, before its loop
InitClosest ==
    /\ nodes = <<>>
    /\ links = <<>>
    /\ InitView
    /\ InitScene
    /\ entry = "main.tsx"
    /\ InitPageState
    /\ NoFlow
    /\ emissive = {}
    /\ autoIntervals = 0
    /\ \E a, b \in 0..numPoints : \E plateau \in 0..MaxPlateau :
          /\ a <= b
          /\ calc = [op |-> "closest", a |-> a, b |-> b, plateau |-> plateau,
                     i |-> 0, minDistance |-> Infinity,
                     closestPoint |-> NoSample]

NextClosest ==
    ClosestStep

SpecClosest ==
    InitClosest /\ [][NextClosest]_vars

\* the pairs of the links, and one that shares its source with a link while
\* no link has its target
SelectPairs ==
    {<<links[i].source, links[i].target>> : i \in DOMAIN links}
        \cup {<<nodes[1], Ghost>>}

\* the auto-cycle of a chain topology while the control panel changes
\* intensities
InitRecycle ==
    /\ \E k \in 1..MaxNodes : \E m \in 0..MaxLinks :
          /\ m = 0 \/ m < k
          /\ nodes = SubSeq(NodePool, 1, k)
          /\ links = ChainLinks(SubSeq(NodePool, 1, k), m)
    /\ InitView
    /\ InitScene
    /\ calc = NoCalc
    /\ NoFlow
    /\ emissive = {}
    /\ autoIntervals = 0
    /\ entry = "main.tsx"
    /\ InitPageState

NextRecycle ==
    \/ MountEffects
    \/ TooltipTick
    \/ checkInactivity
    \/ Advance
    \/ \E p \in SelectPairs : \E x \in Intensities :
          updateTrafficIntensity(p[1], p[2], x)

SpecRecycle ==
    InitRecycle /\ [][NextRecycle]_vars

----------------------------------------------------------------------------
(* Properties *)

AllWellFormed ==
    \A i \in DOMAIN links : WellFormed(links[i])

\* the auto-cycle tooltip of the entity at a 0-based position of nodes ++ links
EntityTooltip(i) ==
    IF i < Len(nodes)
    THEN AutoNodeTooltip(nodes[i + 1])
    ELSE AutoLinkTooltip(links[i - Len(nodes) + 1])

\* the step is a firing of the auto-cycle interval
IsTooltipTick ==
    tooltipTimer = 0 /\ tooltipTimer' = TickSecs

InOrder(t) ==
    \A i \in 1..(Len(t) - 1) :
        t[i + 1].index = (t[i].index + 1) % totalPoints

\* C1: over well-formed links every moveTooltip call displays an entity, the
\* calls walk nodes ++ links in array order and wrap from the last link to
\* the first node, so any |nodes| + |links| consecutive calls display every
\* entity exactly once; the tooltip state is the one of the entity reached.
C1_CycleVisitsEachEntityOnce ==
    (AllWellFormed /\ totalPoints > 0) =>
        /\ \A i \in DOMAIN trace :
              /\ trace[i].set
              /\ trace[i].index \in 0..(totalPoints - 1)
              /\ trace[i].branch =
                    IF trace[i].index < Len(nodes) THEN "node" ELSE "link"
        /\ InOrder(trace)
        /\ \A a \in 1..(Len(trace) - totalPoints + 1) :
              {trace[i].index : i \in a..(a + totalPoints - 1)}
                  = 0..(totalPoints - 1)
        /\ trace # <<>> =>
              autoTooltipData = EntityTooltip(trace[Len(trace)].index)
        /\ ~crashed

\* a full period has been displayed and the call after the last link has
\* displayed the first node again
C1_Witness ==
    /\ AllWellFormed
    /\ Len(nodes) >= 2
    /\ Len(links) >= 1
    /\ Len(trace) = totalPoints + 1
    /\ trace[Len(trace) - 1].index = totalPoints - 1
    /\ trace[Len(trace)].index = 0
    /\ autoTooltipData = AutoNodeTooltip(nodes[1])

\* C2: a pointer-down on node A sets hoveredNode = A, hoveredLink = null,
\* autoTooltip = false and selects A; from then on auto-cycle stays off in
\* every step that ends within 5 s of the latest pointer input (the checkbox,
\* which sets the mode by hand, apart).
C2_ClickPinsUntilIdle ==
    [][ /\ lastEvent'.op = "nodeDown" =>
              /\ hoveredNode' = lastEvent'.a
              /\ hoveredLink' = NullLink
              /\ autoTooltip' = FALSE
              /\ selectedTarget' = PositionOf(lastEvent'.a)
              /\ selectedTooltip' = ensureOutsideSphere(PositionOf(lastEvent'.a))
        /\ ( /\ hoveredNode' # Null
             /\ selectedTarget' = PositionOf(hoveredNode')
             /\ autoTooltip = FALSE
             /\ sinceInput' <= IdleLimit
             /\ lastEvent'.op # "checkbox" ) => autoTooltip' = FALSE
      ]_vars

\* C3: once more than 5 s have passed without pointer input and the
\* inactivity check has run, auto-cycle is on and the displayed tooltip and
\* its connector target are the auto-cycle's.
C3_IdleResumesAutoCycle ==
    (Mounted /\ sinceInput > IdleLimit /\ checkTimer > 0) =>
        /\ autoTooltip
        /\ tooltipData = autoTooltipData
        /\ ConnectorTarget = autoTooltipData.targetPosition

\* a clicked node is still recorded, the idle period has passed, and what is
\* displayed is the auto-cycle's tooltip, not the clicked node's
C3_Witness ==
    /\ hoveredNode # Null
    /\ selectedTarget = PositionOf(hoveredNode)
    /\ sinceInput > IdleLimit
    /\ checkTimer > 0
    /\ autoTooltip
    /\ TooltipShown
    /\ tooltipData # getHoverTooltipData
    /\ ConnectorTarget # getTooltipTargetPosition

\* C4: a pointer-down on a rendered link pins the tooltip to that link and
\* selects it for a camera transition.
C4_LinkClickSelects ==
    [][ lastEvent'.op = "linkDown" =>
            /\ hoveredLink' = [source |-> lastEvent'.a, target |-> lastEvent'.b]
            /\ hoveredNode' = Null
            /\ autoTooltip' = FALSE
            /\ selectedTarget' =
                  findClosestPointOnGreatCircle(lastEvent'.a, lastEvent'.b)
            /\ selectedTooltip' =
                  ensureOutsideSphere(Midpoint(lastEvent'.a, lastEvent'.b))
      ]_vars

\* C5: at most one mounted instance exists for the container.
C5_AtMostOneMount ==
    Len(mounts) <= 1

\* C6: once the host has called init, no automatic mount exists (entry
\* point with the manual-initialisation flag).
C6_ManualSuppressesAuto ==
    (entry = "NetworkTopology.tsx" /\ \E i \in DOMAIN calls : calls[i] = "manual")
        => \A j \in DOMAIN mounts : mounts[j] = "manual"

\* C7: an init call without the container logs one error, mounts nothing
\* and does not throw; an init call with the container present mounts.
C7_MissingContainerReported ==
    [][ Len(calls') > Len(calls) =>
            IF ~containerExists
            THEN /\ consoleErrors' = consoleErrors + 1
                 /\ mounts' = mounts
                 /\ thrown' = FALSE
            ELSE /\ mounts' = Append(mounts, calls'[Len(calls')])
                 /\ consoleErrors' = consoleErrors
                 /\ thrown' = FALSE
      ]_vars

\* an init call failed for want of the container and a later one mounted
C7_Witness ==
    /\ consoleErrors >= 1
    /\ Len(mounts) >= 1
    /\ calls[1] = "auto"
    /\ ~thrown

LandsOnMalformedLink ==
    /\ currentIndex' >= Len(nodes)
    /\ ~WellFormed(links[currentIndex' - Len(nodes) + 1])

\* C8: every tick advances the index by one modulo |nodes| + |links|; a tick
\* that lands on a link with an unknown endpoint raises no error and leaves
\* the tooltip state as it was.
C8_MalformedLinkSkipped ==
    [][ IsTooltipTick =>
            /\ currentIndex' = (currentIndex + 1) % totalPoints
            /\ crashed' = FALSE
            /\ LandsOnMalformedLink => autoTooltipData' = autoTooltipData
      ]_vars

\* a call skipped a malformed link and the next call displayed the entity
\* after it
C8_Witness ==
    /\ Len(trace) >= 3
    /\ \E i \in 2..(Len(trace) - 1) :
          /\ trace[i - 1].set
          /\ ~trace[i].set
          /\ trace[i + 1].set
          /\ trace[i + 1].index = (trace[i].index + 1) % totalPoints
    /\ ~crashed

\* C9: with nodes and no links every moveTooltip call takes the node branch
\* and displays a node, in array order, without error.
C9_NodeOnlyCycle ==
    (Len(links) = 0 /\ Len(nodes) >= 1) =>
        /\ \A i \in DOMAIN trace :
              /\ trace[i].branch = "node"
              /\ trace[i].set
              /\ trace[i].index < Len(nodes)
        /\ \A i \in 1..(Len(trace) - 1) :
              trace[i + 1].index = (trace[i].index + 1) % Len(nodes)
        /\ trace # <<>> =>
              autoTooltipData = AutoNodeTooltip(nodes[trace[Len(trace)].index + 1])
        /\ ~crashed

\* the node-only cycle has wrapped around
C9_Witness ==
    /\ Len(links) = 0
    /\ Len(nodes) >= 2
    /\ Len(trace) = Len(nodes) + 1
    /\ trace[Len(trace)].index = trace[1].index
    /\ autoTooltipData.type = "node"

HoverOps ==
    {"nodeEnter", "nodeLeave", "linkEnter", "linkLeave"}

\* C10: in auto-cycle mode a pointer-enter or pointer-leave leaves
\* hoveredNode and hoveredLink as they were and the displayed tooltip is the
\* auto-cycle's; outside it the displayed tooltip and its connector target
\* are the ones derived from hoveredNode / hoveredLink.
C10_ModesExclusive ==
    [][ /\ (autoTooltip /\ lastEvent'.op \in HoverOps) =>
              (hoveredNode' = hoveredNode /\ hoveredLink' = hoveredLink)
        /\ autoTooltip' =>
              /\ tooltipData' = autoTooltipData'
              /\ ConnectorTarget' = autoTooltipData'.targetPosition
        /\ ~autoTooltip' =>
              /\ tooltipData' = getHoverTooltipData'
              /\ ConnectorTarget' = getTooltipTargetPosition'
      ]_vars

\* a pointer-leave arrived in auto-cycle mode and the hovered node is still
\* recorded
C10_Witness ==
    /\ autoTooltip
    /\ lastEvent.op = "nodeLeave"
    /\ hoveredNode # Null
    /\ tooltipData = autoTooltipData

\* C11: a mousedown, wheel or touchstart leaves auto-rotation off; it is off
\* in every state within 5000 ms of the latest such input; a frame callback
\* that runs once more than 5000 ms have passed without such input leaves it
\* on.
C11_RotationSuspendedUntilIdle ==
    [][ /\ lastEvent'.op \in Gestures => ~autoRotate'
        /\ sinceGesture' <= RotateIdleSteps => ~autoRotate'
        /\ (lastEvent'.op = "useFrame" /\ sinceGesture' > RotateIdleSteps)
              => autoRotate'
      ]_vars

\* auto-rotation was suspended by an input and a frame callback has switched
\* it on again after the idle period
C11_Witness ==
    /\ lastEvent.op = "useFrame"
    /\ sinceGesture = RotateCap
    /\ rotateIdle = RotateCap
    /\ autoRotate
    /\ isAutoRotating

TweenRunning ==
    posTween.playing

C13_UnmountCancelsEverything ==
    [][ /\ ~unmounted
        /\ unmounted' =>
              /\ ~polling'
              /\ checkTimer' = -1
              /\ tooltipTimer' = -1
              /\ ~animating'
              /\ ~posTween'.playing
              /\ ~windowListeners'
              /\ ~containerListeners'
      ]_vars

\* the view was unmounted with its auto-cycle started and a camera tween
\* still on its way
C13_Witness ==
    /\ unmounted
    /\ canvas = "unmounted"
    /\ trace # <<>>
    /\ posTween.to # <<>>
    /\ posTween.elapsed < TweenSteps
    /\ cameraPosition # posTween.to
    /\ lastEvent.op = "unmount"

\* C14: the keys of the position map are node ids; a link is drawn only
\* with a polled position for its source and for its target; a link that
\* names an unknown node is never drawn, and nothing throws.
C14_LinkDrawnOnlyWithBothPositions ==
    /\ nodePositions \subseteq NodeIds
    /\ \A i \in DOMAIN links :
          /\ LinkDrawn(links[i]) =>
                (links[i].source \in nodePositions /\ links[i].target \in nodePositions)
          /\ ~WellFormed(links[i]) => ~LinkDrawn(links[i])
    /\ ~crashed

\* the positions have been polled: a well-formed link is drawn next to a
\* malformed one that is not
C14_Witness ==
    /\ nodePositions = NodeIds
    /\ \E i, j \in DOMAIN links :
          /\ WellFormed(links[i])
          /\ LinkDrawn(links[i])
          /\ ~WellFormed(links[j])
          /\ ~LinkDrawn(links[j])

IntensityOfOp(op) ==
    CASE op = "setLow" -> "low"
      [] op = "setMedium" -> "medium"
      [] op = "setHigh" -> "high"

IsIntensityOp(op) ==
    op \in {"setLow", "setMedium", "setHigh"}

\* C20: updateTrafficIntensity(source, target, intensity) leaves the nodes,
\* the number and order of the links and every link's endpoints as they
\* were; a link whose pair matches gets the intensity, every other link
\* keeps its own; with no matching link the topology is unchanged.
C20_OnlyMatchingIntensityChanges ==
    [][ IsIntensityOp(lastEvent'.op) =>
            /\ nodes' = nodes
            /\ Len(links') = Len(links)
            /\ \A i \in DOMAIN links :
                  /\ links'[i].source = links[i].source
                  /\ links'[i].target = links[i].target
                  /\ links'[i].trafficIntensity =
                        IF /\ links[i].source = lastEvent'.a
                           /\ links[i].target = lastEvent'.b
                        THEN IntensityOfOp(lastEvent'.op)
                        ELSE links[i].trafficIntensity
            /\ (\A i \in DOMAIN links :
                    ~(links[i].source = lastEvent'.a /\ links[i].target = lastEvent'.b))
                  => <<nodes', links'>> = <<nodes, links>>
      ]_vars

\* a link of the pair named by the call has taken the new intensity and a
\* link of another pair has kept its own
C20_Witness ==
    /\ IsIntensityOp(lastEvent.op)
    /\ Len(links) >= 2
    /\ \E i, j \in DOMAIN links :
          /\ links[i].source = lastEvent.a
          /\ links[i].target = lastEvent.b
          /\ links[i].trafficIntensity = IntensityOfOp(lastEvent.op)
          /\ links[j].target # lastEvent.b
          /\ links[j].trafficIntensity # IntensityOfOp(lastEvent.op)

SameDirection(a, b) ==
    Cross(a, b) = Zero /\ Dot(a, b) > 0

\* C15: the anchor computed for a node, and for a link between two nodes
\* wherever they are on the sphere, is at 1.5 x radius from the center, in
\* the direction of the node position or of the chord midpoint.
C15_AnchorOutsideSphere ==
    (calc.op \in {"nodeAnchor", "linkAnchor"} /\ calc.done) =>
        /\ calc.out.radius > 0
        /\ calc.out.anchor.num * OffsetDen
              = calc.out.radius * OffsetNum * calc.out.anchor.den
        /\ SameDirection(calc.out.anchor.dir, calc.out.reference)

\* the direction d lies on the arc from a to b: in their plane and between
\* them
OnArc(d, a, b) ==
    /\ Dot(d, Cross(a, b)) = 0
    /\ Dot(Cross(a, d), Cross(a, b)) >= 0
    /\ Dot(Cross(d, b), Cross(a, b)) >= 0
    /\ Cross(a, b) = Zero => SameDirection(d, a)

\* C16: for non-zero, non-antipodal start and end and t in [0, 1] the point
\* returned by getGreatCirclePoint has magnitude radius and lies on the
\* great-circle arc between the directions of start and end.
C16_PointOnGreatCircleArc ==
    (calc.op = "arc" /\ calc.done) =>
        /\ calc.out.num = calc.radius * calc.out.den
        /\ OnArc(calc.out.dir, Primitive(calc.start), Primitive(calc.end))

\* C17: after initialisation and after every frame update every particle's
\* progress p satisfies 0 <= p < 1.
C17_ProgressBelowOne ==
    \A i \in DOMAIN progress : 0 <= progress[i] /\ progress[i] < ProgressOne

\* C17 as amended: after initialisation and after every frame update every
\* particle's progress p satisfies 0 <= p <= 1; p = 1 is reached when the
\* sum progress + speed * delta is exactly 1.
C17_ProgressAtMostOne ==
    \A i \in DOMAIN progress : 0 <= progress[i] /\ progress[i] <= ProgressOne

C17_Witness ==
    \E i \in DOMAIN progress :
        /\ progress[i] = ProgressOne
        /\ progress0[i] < ProgressOne
        /\ flowElapsed > 0

\* C18: on a frame update with elapsed delta each particle's progress
\* becomes progress + speed * delta when that sum does not exceed 1 and the
\* particle keeps its offset; when the sum exceeds 1 the progress becomes
\* exactly 0 and the particle gets a newly generated offset.
C18_FrameUpdate ==
    [][lastTime' # lastTime =>
          LET delta == IF lastTime = 0 THEN 0 ELSE lastTime' - lastTime
              speed == getIntensityParams(flowIntensity).speed
          IN  \A i \in DOMAIN progress :
                  IF progress[i] + speed * delta <= ProgressOne
                  THEN /\ progress'[i] = progress[i] + speed * delta
                       /\ offsets'[i] = offsets[i]
                  ELSE /\ progress'[i] = 0
                       /\ offsets'[i] > draws]_vars

C18_Witness ==
    LET speed == getIntensityParams(flowIntensity).speed
    IN  \E i, j \in DOMAIN progress :
            /\ flowElapsed > 0
            /\ progress0[i] + speed * flowElapsed > ProgressOne
            /\ progress[i] = 0
            /\ progress[j] = progress0[j] + speed * flowElapsed
            /\ offsets[j] < offsets[i]

\* C19: for the same starting progress and the same total elapsed time
\* every division of that time into frames yields the same final progress:
\* the progress is the one a single frame of the whole time yields.
C19_FrameRateIndependent ==
    \A i \in DOMAIN progress :
        progress[i] = NextProgress(progress0[i],
                                   getIntensityParams(flowIntensity).speed,
                                   flowElapsed)

\* C21: the highlight mutation applied to one node while it is highlighted
\* is never observable on the shared template or on any other node
\* instance.
C21_HighlightStaysOnOneNode ==
    /\ Template \notin emissive
    /\ \A id \in NodeIds : MaterialOf(id) \in emissive => hoveredNode = id

PointIsFinite(p) ==
    IsFinite(p.x) /\ IsFinite(p.y) /\ IsFinite(p.z)

\* C22: distributePointsOnSphere called with count = 1 performs no division
\* by zero and returns exactly one point, whose coordinates are finite.
C22_SinglePointIsFinite ==
    (DistributeDone /\ calc.count = 1) =>
        /\ calc.zeroDivisions = 0
        /\ Len(calc.points) = 1
        /\ \A k \in DOMAIN calc.points : PointIsFinite(calc.points[k])

DistanceOf(i) ==
    SampleDistance(i, calc.a, calc.b, calc.plateau).num

\* C23: findClosestPointOnGreatCircle returns one of the samples
\* i = 0..32 whose distance to the query point is minimal over all the
\* samples, and among equally close samples the one with the smallest i.
C23_FirstNearestSample ==
    ClosestDone =>
        /\ calc.closestPoint \in 0..numPoints
        /\ \A k \in 0..numPoints :
               DistanceOf(calc.closestPoint) <= DistanceOf(k)
        /\ \A k \in 0..numPoints :
               k < calc.closestPoint =>
                   DistanceOf(k) > DistanceOf(calc.closestPoint)

C23_Witness ==
    /\ ClosestDone
    /\ \E k \in 0..numPoints :
           /\ k > calc.closestPoint + 1
           /\ DistanceOf(k) = DistanceOf(calc.closestPoint)
           /\ DistanceOf(k - 1) > DistanceOf(k)

\* C24: in every reachable state at most one of hoveredNode and hoveredLink
\* is non-null.
C24_OneHoveredEntity ==
    hoveredNode = Null \/ hoveredLink = NullLink

C24_Witness ==
    /\ lastEvent.op = "linkEnter"
    /\ hoveredLink # NullLink
    /\ emissive # {}

\* C25: at most one camera tween is started and not stopped at any time; a
\* new selection stops the previous tween before its own tween starts, the
\* new tween begins from the camera's position at that moment, and only
\* the tween of the latest selection writes the camera position.
C25_OneTweenAtATime ==
    [][/\ Len(tweenGroup') <= 1
       /\ tweenGroup' # <<>> =>
              /\ posTween'.playing
              /\ tweenGroup'[1] =
                     Running(posTween'.from, posTween'.to, posTween'.elapsed)
       /\ lastEvent'.op = "nodeDown" =>
              /\ tweenGroup' = <<Running(cameraPosition, posTween'.to, 0)>>
              /\ cameraPosition' = cameraPosition
       /\ cameraPosition' # cameraPosition =>
              /\ posTween.playing
              /\ cameraPosition' =
                     TweenValue(posTween.from, posTween.to, posTween.elapsed)]_vars

C25_Witness ==
    /\ Len(tweenGroup) = 1
    /\ Depth(posTween.from) = 1
    /\ posTween.from[3] # posTween.to
    /\ posTween.elapsed > 0
    /\ Depth(cameraPosition) = 2

\* C26: each updateTrafficIntensity call re-creates the auto-cycle effect:
\* the old interval is cleared, the auto-cycle index advances by one entity
\* at once (it is not reset to 0), and a new 3000 ms interval starts; at
\* most one auto-cycle interval is active at any time.
C26_IntensityChangeRestartsCycle ==
    [][/\ autoIntervals' <= 1
       /\ IsIntensityOp(lastEvent'.op) =>
              /\ currentIndex' = (currentIndex + 1) % totalPoints
              /\ tooltipTimer' = TickSecs
              /\ autoIntervals' = 1]_vars

\* a call made while the check interval was under way has changed a link,
\* moved the index on to the last entity and restarted the interval
C26_Witness ==
    /\ IsIntensityOp(lastEvent.op)
    /\ currentIndex = totalPoints - 1
    /\ currentIndex > 1
    /\ tooltipTimer = TickSecs
    /\ checkTimer = 0
    /\ autoIntervals = 1
    /\ \E i \in DOMAIN links : links[i].trafficIntensity = "low"

\* the step is a run of checkInactivity
InactivityCheckRuns ==
    /\ lastEvent'.op = "timer"
    /\ checkTimer = 0
    /\ checkTimer' = CheckSecs

\* C27: the checkbox sets the mode to its checked state but not durably: a
\* run of the inactivity check more than 5 s after the last mouse movement
\* leaves auto-cycle on whatever the checkbox set, and a mouse movement
\* inside the container leaves it off whatever the checkbox set.
C27_CheckboxNotDurable ==
    [][ /\ lastEvent'.op = "checkbox" => autoTooltip' = ~autoTooltip
        /\ (InactivityCheckRuns /\ idle > IdleLimit) => autoTooltip'
        /\ (InactivityCheckRuns /\ idle <= IdleLimit) => autoTooltip' = autoTooltip
        /\ lastEvent'.op = "mousemove" => ~autoTooltip'
      ]_vars

\* the inactivity check has run in the same second as an input that is not
\* a mouse movement, more than 5 s after the last one, and the mode is on
C27_Witness ==
    /\ lastEvent.op = "timer"
    /\ checkTimer = CheckSecs
    /\ sinceInput = 0
    /\ idle > IdleLimit
    /\ autoTooltip
    /\ hoveredNode = Null
    /\ hoveredLink = NullLink

\* isHighlighted={hoveredNode === node.id}
NodeIsHighlighted(id) ==
    hoveredNode = id

\* C28: a step that ends in auto-cycle mode, the resuming run of the
\* inactivity check and the checking of the checkbox included, leaves
\* hoveredNode and hoveredLink as they were, and the node that hoveredNode
\* names keeps its highlight: the two change only in a step that ends in
\* hover/click mode.
C28_HighlightSurvivesResume ==
    [][ /\ autoTooltip' =>
              /\ hoveredNode' = hoveredNode
              /\ hoveredLink' = hoveredLink
        /\ \A id \in NodeIds :
              NodeIsHighlighted(id)' => MaterialOf(id) \in emissive'
      ]_vars

\* the inactivity check has resumed auto-cycle and the node that was clicked
\* is still the hovered, highlighted one while the auto-cycle's tooltip shows
C28_Witness ==
    /\ autoTooltip
    /\ lastEvent.op = "timer"
    /\ checkTimer = CheckSecs
    /\ hoveredNode # Null
    /\ NodeIsHighlighted(hoveredNode)
    /\ selectedTarget = PositionOf(hoveredNode)
    /\ MaterialOf(hoveredNode) \in emissive
    /\ tooltipData = autoTooltipData

\* C29: every callback of the 3000 ms interval advances the index by one,
\* in hover/click mode as in auto-cycle mode, and a step that resumes
\* auto-cycle leaves the index where the callbacks have brought it and
\* displays the tooltip of the entity at that index.
C29_CycleRunsInEveryMode ==
    [][ /\ IsTooltipTick => currentIndex' = NextIndex(currentIndex, totalPoints)
        /\ (~autoTooltip /\ autoTooltip' /\ HasInterval) =>
              /\ currentIndex' = currentIndex
              /\ tooltipData' = EntityTooltip(currentIndex)
      ]_vars

\* hover/click mode was entered on a node, the inactivity check has resumed
\* auto-cycle, and the tooltip is the one of the last entity of the cycle,
\* which is not the hovered node
C29_Witness ==
    /\ autoTooltip
    /\ lastEvent.op = "timer"
    /\ checkTimer = CheckSecs
    /\ hoveredNode # Null
    /\ currentIndex = totalPoints - 1
    /\ currentIndex > 1
    /\ tooltipData = EntityTooltip(currentIndex)
    /\ tooltipData # AutoNodeTooltip(hoveredNode)

\* the step is a render of TrafficFlow
IsRender ==
    flowStep' \in {"init", "kept"}

\* C30: a render of TrafficFlow with the intensity of the previous one
\* leaves every particle's progress and offset as they were; a render
\* replaces them only when the count of the new intensity differs from the
\* count of the old one; and after every step, a frame included, both
\* arrays have the count of the current intensity as their length.
C30_RerenderKeepsParticles ==
    [][ /\ (IsRender /\ flowIntensity' = flowIntensity) =>
              /\ progress' = progress
              /\ offsets' = offsets
        /\ (IsRender /\ (progress' # progress \/ offsets' # offsets)) =>
              getIntensityParams(flowIntensity').count
                  # getIntensityParams(flowIntensity).count
        /\ arrayLength'.progress = getIntensityParams(flowIntensity').count
        /\ arrayLength'.offsets = getIntensityParams(flowIntensity').count
        /\ DOMAIN progress' = Particles(flowIntensity')
        /\ DOMAIN offsets' = Particles(flowIntensity')
      ]_vars

\* frames have moved the particles and given one a new offset, and the
\* render that followed kept the arrays
C30_Witness ==
    /\ flowStep = "kept"
    /\ flowElapsed > 0
    /\ \E i \in DOMAIN progress : progress[i] # progress0[i]
    /\ \E i \in DOMAIN offsets : offsets[i] > Cardinality(DOMAIN offsets)
    /\ arrayLength.progress = getIntensityParams(flowIntensity).count

====
